---- MODULE Spec2Model ----
(***************************************************************************)
(* zentures/bloom: the Standard, Partitioned and Scalable Bloom filters,   *)
(* the parameter math they share (bloom.K, bloom.M, bloom.S) and the       *)
(* operations of the bloom.Bloom interface.                                *)
(*                                                                         *)
(* float64 values are fixed-point integers counted in units of 1/FScale;   *)
(* NaN and the infinities are three integers outside the finite range.     *)
(* uint is 64 bits wide in the builds modelled and every uint the model    *)
(* computes stays far below 2^31, so no uint operation wraps.              *)
(***************************************************************************)
EXTENDS Integers, Sequences, FiniteSets, TLC

(***************************************************************************)
(* Bounds of the model.                                                    *)
(***************************************************************************)
\* items are the byte strings 1..MaxItem handed to Add and Check
MaxItem == 2
\* Add is not called once a filter's count has reached MaxCount
MaxCount == 3
\* the word list of the test driver holds the distinct keys 1..MaxKeys
MaxKeys == 12

(***************************************************************************)
(* float64 arithmetic (package math), in fixed point.                      *)
(***************************************************************************)
FScale == 1000000
NaN == -2000000000
PosInf == 2000000000
NegInf == -2000000001
\* math.Ln2
Ln2 == 693147
\* what uint(x) yields for a float64 x it cannot represent (NaN, +Inf): the
\* Go specification leaves the value to the implementation (0 on arm64 for
\* NaN, 1<<63 on amd64); HugeUint stands for 1<<63
HugeUint == 1073741824
ImplDependentUint == {0, HugeUint}

IsFinite(x) == x \notin {NaN, PosInf, NegInf}

Abs(x) == IF x < 0 THEN -x ELSE x

\* the next d decimal digits of r / b, for 0 <= r < b
RECURSIVE DivDigits(_, _, _)
DivDigits(r, b, d) ==
    IF d = 0 THEN 0
    ELSE LET q == (r * 10) \div b
             t == DivDigits((r * 10) % b, b, d - 1)
         IN  q * (10 ^ (d - 1)) + t

\* a / b of two non-negative finite values, b > 0 (both fixed point, or both
\* integers: the quotient is fixed point), rounded to the nearest unit
DivF(a, b) == (a \div b) * FScale + (DivDigits(a % b, b, 7) + 5) \div 10

\* float64 division x / y on non-negative operands, with IEEE's results for
\* a zero divisor
FDiv(a, b) ==
    IF b = 0 THEN (IF a = 0 THEN NaN ELSE PosInf)
    ELSE DivF(a, b)

\* x * y of two non-negative fixed-point values, rounded to the nearest unit
MulF(x, y) ==
    LET xh == x \div 1000
        xl == x % 1000
        yh == y \div 1000
        yl == y % 1000
    IN  xh * yh + ((xh * yl + xl * yh) * 1000 + xl * yl + 500000) \div FScale

\* math.Ceil of a finite value, as an integer
Ceil(x) == -((-x) \div FScale)

\* math.Frexp, shifted by one bit: x = y * 2^j with 1 <= y < 2, for x > 0
RECURSIVE Frexp(_, _)
Frexp(x, j) ==
    IF x < FScale THEN Frexp(x * 2, j - 1)
    ELSE IF x >= 2 * FScale THEN Frexp(x \div 2, j + 1)
    ELSE <<x, j>>

\* z + z^3/3 + z^5/5 + ... from the term z^i on, zi = z^i
RECURSIVE AtanhSeries(_, _, _)
AtanhSeries(zi, z2, i) ==
    IF zi = 0 \/ i > 15 THEN 0
    ELSE (2 * zi + i) \div (2 * i) + AtanhSeries(MulF(zi, z2), z2, i + 2)

\* math.Log of y, 1 <= y < 2
LogFrac(y) ==
    LET z == DivF(y - FScale, y + FScale)
    IN  2 * AtanhSeries(z, MulF(z, z), 1)

\* math.Log(x), x > 0
Log(x) ==
    LET f == Frexp(x, 0)
    IN  f[2] * Ln2 + LogFrac(f[1])

\* math.Log2(x), x > 0: exact on the powers of two, as in package math
Log2(x) ==
    LET f == Frexp(x, 0)
    IN  IF f[1] = FScale THEN f[2] * FScale
        ELSE f[2] * FScale + DivF(LogFrac(f[1]), Ln2)

\* 1 - r + r^2/2! - ... from the term t = r^i/i! on, 0 <= r < Ln2
RECURSIVE ExpSeries(_, _, _)
ExpSeries(t, r, i) ==
    IF t = 0 \/ i > 14 THEN 0
    ELSE t - ExpSeries(MulF(t, r) \div (i + 1), r, i + 1)

\* math.Exp(x), x <= 0 (or NaN, -Inf): x = -(q*Ln2 + r), exp(x) = exp(-r) / 2^q
Exp(x) ==
    IF x = NaN THEN NaN
    ELSE IF x = NegInf THEN 0
    ELSE LET q == (-x) \div Ln2
             r == (-x) % Ln2
         IN  IF q > 30 THEN 0 ELSE ExpSeries(FScale, r, 0) \div (2 ^ q)

\* 1 - x in float64
OneMinus(x) == IF x = NaN THEN NaN ELSE FScale - x

\* x + y in float64, on non-negative operands
FAdd(x, y) == IF x = NaN \/ y = NaN THEN NaN ELSE x + y

\* x > y in float64: false when either side is NaN
FGt(x, y) == x # NaN /\ y # NaN /\ x > y

(***************************************************************************)
(* State.                                                                  *)
(***************************************************************************)
\* the filter the caller holds: a Standard, Partitioned or Scalable record
VARIABLES bf

vars == <<bf>>

Items == 1 .. MaxItem
\* the capacities n the caller constructs filters with
Capacities == {1, 1000}
\* the error rates the caller passes to SetErrorProbability: 0.5, and 1.0,
\* which is no valid error rate
ErrorRates == {500000, FScale}
\* the hash.Hash objects: "fnv" is fnv.New64(), which New installs; "crc" is
\* crc64.New(crc64.MakeTable(crc64.ECMA)) and "crc32" is crc32.NewIEEE(), a
\* hash.Hash with a 4-byte digest, which the caller passes to SetHasher
CallerHashers == {"crc", "crc32"}
Nil == "nil"
\* the constructors the caller passes to SetBloomFilter
Constructors == {"standard"}

(***************************************************************************)
(* hash.Hash: Reset, Write, Sum.  A 64-bit digest is 8 bytes.  Every       *)
(* bits() opens with h.Reset(), so what a hasher absorbed in an earlier    *)
(* call never reaches a digest: a hasher is known by its algorithm, and    *)
(* the bytes it holds live only inside bits().                             *)
(***************************************************************************)
hashReset == << >>

hashWrite(buf, item) == Append(buf, item)

\* h.Size(): the number of bytes Sum appends
hashSize(h) == IF h = "crc32" THEN 4 ELSE 8

hashSum(h, buf) ==
    IF buf = << >> THEN [i \in 1 .. hashSize(h) |-> 0]
    ELSE LET x == buf[1]
         IN  IF h = "crc32"
             THEN <<0, 0, (29 * x) % 256, (3 * x + 7) % 256>>
             ELSE IF h = "fnv"
             THEN <<0, 0, (37 * x) % 256, (11 * x + 5) % 256,
                    0, 0, (101 * x) % 256, (7 * x + 3) % 256>>
             ELSE <<0, 0, (53 * x) % 256, (2 * x + 1) % 256,
                    0, 0, (13 * x) % 256, (x * x + x \div 2) % 256>>

\* binary.BigEndian.Uint32 of four bytes
BigEndianUint32(s) == ((s[1] * 256 + s[2]) * 256 + s[3]) * 256 + s[4]

(***************************************************************************)
(* Parameter math (package bloom).                                         *)
(***************************************************************************)
\* K(e) = uint(math.Ceil(math.Log2(1 / e))), for 0 < e <= 1
K(e) == Ceil(Log2(DivF(FScale, e)))

\* M(n, p, e) = uint(math.Ceil(float64(n) / ((math.Log(p) * math.Log(1-p)) / math.Abs(math.Log(e))))),
\* for 0 < p < 1 and 0 < e <= 1.  n / (d / l) is computed as n * l / d, which
\* keeps the fixed-point quotient exact; l = 0 gives d / l = +Inf and n / +Inf = 0.
M(n, p, e) ==
    LET d == MulF(Abs(Log(p)), Abs(Log(FScale - p)))
        l == Abs(Log(e))
        w == n * (l \div d)
        f == n * (l % d)
    IN  IF l = 0 THEN 0
        ELSE w + (f \div d) + (IF f % d = 0 THEN 0 ELSE 1)

\* S(m, k) = uint(math.Ceil(float64(m) / float64(k))): the values the call can
\* yield.  With k = 0 the quotient is NaN (m = 0) or +Inf, and uint() of either
\* is implementation-dependent.
S(m, k) ==
    IF k = 0 THEN ImplDependentUint
    ELSE {(m \div k) + (IF m % k = 0 THEN 0 ELSE 1)}

\* math.Pow(x, i) for an integer i >= 0
RECURSIVE Pow(_, _)
Pow(x, i) == IF i = 0 THEN FScale ELSE MulF(x, Pow(x, i - 1))

(***************************************************************************)
(* bitset.BitSet                                                           *)
(***************************************************************************)
bitsetNew(length) == [length |-> length, set |-> {}]

bitsetSet(B, v) ==
    [length |-> IF v >= B.length THEN v + 1 ELSE B.length, set |-> B.set \cup {v}]

bitsetTest(B, v) == v \in B.set

bitsetCount(B) == Cardinality(B.set)

\* make([]uint, k)
makeUints(k) == [i \in 1 .. k |-> 0]


(***************************************************************************)
(* standard.StandardBloom                                                  *)
(***************************************************************************)
StandardNew(n) ==
    LET p == 500000
        e == 1000
        k == K(e)
        m == M(n, p, e)
    IN  [kind |-> "standard", h |-> "fnv", n |-> n, p |-> p, e |-> e,
         k |-> k, m |-> m, s |-> 0, c |-> 0,
         b |-> <<bitsetNew(m)>>, bs |-> makeUints(k)]

StandardSetHasher(f, h) == [f EXCEPT !.h = h]

StandardReset(f) ==
    LET k == K(f.e)
        m == M(f.n, f.p, f.e)
    IN  [f EXCEPT !.k = k, !.m = m, !.b = <<bitsetNew(m)>>, !.bs = makeUints(k),
                  !.h = IF f.h = Nil THEN "fnv" ELSE f.h]

StandardSetErrorProbability(f, e) == [f EXCEPT !.e = e]

\* a faulty estimate, for comparison: the share of the bits that are set
StandardEstimatedFillRatioByBits(f) == FDiv(bitsetCount(f.b[1]), f.m)

\* 1 - math.Exp((-float64(c) * float64(k)) / float64(m))
StandardEstimatedFillRatio(f) ==
    LET x == FDiv(f.c * f.k, f.m)
    IN  OneMinus(Exp(IF x = NaN THEN NaN ELSE IF x = PosInf THEN NegInf ELSE -x))

StandardFillRatio(f) == FDiv(bitsetCount(f.b[1]), f.m)

\* bits(item) ends in a run-time panic: s[4:8] of a digest shorter than 8
\* bytes is out of range, and % m with m = 0 is an integer division by zero
StandardBitsPanics(f, item) ==
    \/ Len(hashSum(f.h, hashWrite(hashReset, item))) < 8
    \/ f.k > 0 /\ f.m = 0

\* bits(item): the k indices (a + b*i) % m from the two halves of the digest
StandardBits(f, item) ==
    LET sum == hashSum(f.h, hashWrite(hashReset, item))
        a == BigEndianUint32(SubSeq(sum, 5, 8))
        b == BigEndianUint32(SubSeq(sum, 1, 4))
    IN  [i \in 1 .. f.k |-> (a + b * (i - 1)) % f.m]

\* the bit region after Set(v) for every v of bs[from..]
RECURSIVE SetEach(_, _, _)
SetEach(B, bs, from) ==
    IF from > Len(bs) THEN B
    ELSE SetEach(bitsetSet(B, bs[from]), bs, from + 1)

\* a faulty Add, for comparison: it counts an item only if Check did not
\* already report it
StandardAddDistinct(f, item) ==
    LET bs == StandardBits(f, item)
        seen == \A i \in 1 .. Len(bs) : bitsetTest(f.b[1], bs[i])
    IN  [f EXCEPT !.bs = bs, !.b = <<SetEach(f.b[1], bs, 1)>>,
                  !.c = IF seen THEN f.c ELSE f.c + 1]

StandardAdd(f, item) ==
    LET bs == StandardBits(f, item)
    IN  [f EXCEPT !.bs = bs, !.b = <<SetEach(f.b[1], bs, 1)>>, !.c = f.c + 1]

\* the filter after Check(item): bits() has overwritten bs
StandardAfterCheck(f, item) == [f EXCEPT !.bs = StandardBits(f, item)]

StandardCheck(f, item) ==
    LET bs == StandardBits(f, item)
    IN  \A i \in 1 .. f.k : bitsetTest(f.b[1], bs[i])

(***************************************************************************)
(* partitioned.PartitionedBloom                                            *)
(***************************************************************************)
makePartitions(k, s) == [i \in 1 .. k |-> bitsetNew(s)]

PartitionedNew(n) ==
    LET p == 500000
        e == 1000
        k == K(e)
        m == M(n, p, e)
        s == CHOOSE s \in S(m, k) : TRUE
    IN  [kind |-> "partitioned", h |-> "fnv", n |-> n, p |-> p, e |-> e,
         k |-> k, m |-> m, s |-> s, c |-> 0,
         b |-> makePartitions(k, s), bs |-> makeUints(k)]

PartitionedSetHasher(f, h) == [f EXCEPT !.h = h]

\* the filters Reset() can leave: one for each value S can yield
PartitionedReset(f) ==
    LET k == K(f.e)
        m == M(f.n, f.p, f.e)
    IN  { [f EXCEPT !.k = k, !.m = m, !.s = s, !.b = makePartitions(k, s),
                    !.bs = makeUints(k),
                    !.h = IF f.h = Nil THEN "fnv" ELSE f.h] : s \in S(m, k) }

PartitionedSetErrorProbability(f, e) == [f EXCEPT !.e = e]

\* 1 - math.Exp(-float64(c) / float64(s))
\* a faulty estimate, for comparison: the Standard formula with s for m
PartitionedEstimatedFillRatioTimesK(f) ==
    LET x == FDiv(f.c * f.k, f.s)
    IN  OneMinus(Exp(IF x = NaN THEN NaN ELSE IF x = PosInf THEN NegInf ELSE -x))

PartitionedEstimatedFillRatio(f) ==
    LET x == FDiv(f.c, f.s)
    IN  OneMinus(Exp(IF x = NaN THEN NaN ELSE IF x = PosInf THEN NegInf ELSE -x))

\* t += count(b[i]) / s over the partitions from the i-th on
RECURSIVE PartitionedFillSum(_, _)
PartitionedFillSum(f, i) ==
    IF i > f.k THEN 0
    ELSE FAdd(FDiv(bitsetCount(f.b[i]), f.s), PartitionedFillSum(f, i + 1))

\* t / float64(k): the mean of the partitions' fill ratios
PartitionedFillRatio(f) ==
    LET t == PartitionedFillSum(f, 1)
    IN  IF t = NaN THEN NaN ELSE FDiv(t, f.k * FScale)

\* bits(item) ends in a run-time panic: s[4:8] of a digest shorter than 8
\* bytes is out of range, and % s with s = 0 is an integer division by zero
PartitionedBitsPanics(f, item) ==
    \/ Len(hashSum(f.h, hashWrite(hashReset, item))) < 8
    \/ f.k > 0 /\ f.s = 0

\* faulty indices, for comparison: reduced modulo m, the width of all the
\* partitions together
PartitionedBitsModM(f, item) ==
    LET sum == hashSum(f.h, hashWrite(hashReset, item))
        a == BigEndianUint32(SubSeq(sum, 5, 8))
        b == BigEndianUint32(SubSeq(sum, 1, 4))
    IN  [i \in 1 .. f.k |-> (a + b * (i - 1)) % f.m]

\* bits(item): the k indices (a + b*i) % s from the two halves of the digest
PartitionedBits(f, item) ==
    LET sum == hashSum(f.h, hashWrite(hashReset, item))
        a == BigEndianUint32(SubSeq(sum, 5, 8))
        b == BigEndianUint32(SubSeq(sum, 1, 4))
    IN  [i \in 1 .. f.k |-> (a + b * (i - 1)) % f.s]

PartitionedAdd(f, item) ==
    LET bs == PartitionedBits(f, item)
    IN  [f EXCEPT !.bs = bs,
                  !.b = [i \in 1 .. Len(f.b) |->
                            IF i <= f.k THEN bitsetSet(f.b[i], bs[i]) ELSE f.b[i]],
                  !.c = f.c + 1]

\* the filter after Check(item): bits() has overwritten bs
PartitionedAfterCheck(f, item) == [f EXCEPT !.bs = PartitionedBits(f, item)]

PartitionedCheck(f, item) ==
    LET bs == PartitionedBits(f, item)
    IN  \A i \in 1 .. f.k : bitsetTest(f.b[i], bs[i])

(***************************************************************************)
(* The bloom.Bloom interface, dispatched on the dynamic type of a          *)
(* generation of a Scalable filter.                                        *)
(***************************************************************************)
\* Add(item) and Check(item) both open with bits(item)
BloomBitsPanics(f, item) ==
    IF f.kind = "standard" THEN StandardBitsPanics(f, item)
    ELSE PartitionedBitsPanics(f, item)

BloomNew(kind, n) ==
    IF kind = "standard" THEN StandardNew(n) ELSE PartitionedNew(n)

BloomSetHasher(f, h) ==
    IF f.kind = "standard" THEN StandardSetHasher(f, h) ELSE PartitionedSetHasher(f, h)

BloomSetErrorProbability(f, e) ==
    IF f.kind = "standard" THEN StandardSetErrorProbability(f, e)
    ELSE PartitionedSetErrorProbability(f, e)

BloomReset(f) ==
    IF f.kind = "standard" THEN {StandardReset(f)} ELSE PartitionedReset(f)

BloomAdd(f, item) ==
    IF f.kind = "standard" THEN StandardAdd(f, item) ELSE PartitionedAdd(f, item)

BloomCheck(f, item) ==
    IF f.kind = "standard" THEN StandardCheck(f, item) ELSE PartitionedCheck(f, item)

BloomAfterCheck(f, item) ==
    IF f.kind = "standard" THEN StandardAfterCheck(f, item)
    ELSE PartitionedAfterCheck(f, item)

BloomEstimatedFillRatio(f) ==
    IF f.kind = "standard" THEN StandardEstimatedFillRatio(f)
    ELSE PartitionedEstimatedFillRatio(f)

BloomFillRatio(f) ==
    IF f.kind = "standard" THEN StandardFillRatio(f) ELSE PartitionedFillRatio(f)

(***************************************************************************)
(* scalable.ScalableBloom                                                  *)
(***************************************************************************)
\* addBloomFilter(): a generation built by bfc (partitioned.New when bfc is
\* nil), given the hasher and the error rate e * r^len(bfs), reset, appended
addBloomFilter(sb) ==
    LET new == IF sb.bfc = Nil THEN PartitionedNew(sb.n) ELSE BloomNew(sb.bfc, sb.n)
        e == MulF(sb.e, Pow(sb.r, Len(sb.bfs)))
    IN  { [sb EXCEPT !.bfs = Append(sb.bfs, gen)] :
            gen \in BloomReset(BloomSetErrorProbability(BloomSetHasher(new, sb.h), e)) }

ScalableNew(n) ==
    addBloomFilter([kind |-> "scalable", h |-> "fnv", n |-> n, p |-> 500000,
                    e |-> 1000, r |-> 900000, c |-> 0, bfs |-> << >>, bfc |-> Nil])

ScalableSetBloomFilter(sb, f) == [sb EXCEPT !.bfc = f]

ScalableSetHasher(sb, h) == [sb EXCEPT !.h = h]

\* a faulty Reset, for comparison: it appends the fresh generation to the
\* chain it should have discarded
ScalableResetKeepsChain(sb) ==
    addBloomFilter([sb EXCEPT !.h = IF sb.h = Nil THEN "fnv" ELSE sb.h, !.c = 0])

ScalableReset(sb) ==
    addBloomFilter([sb EXCEPT !.h = IF sb.h = Nil THEN "fnv" ELSE sb.h,
                              !.bfs = << >>, !.c = 0])

ScalableSetErrorProbability(sb, e) == [sb EXCEPT !.e = e]

ScalableEstimatedFillRatio(sb) == BloomEstimatedFillRatio(sb.bfs[Len(sb.bfs)])

\* t += bfs[i].FillRatio() over the generations from the i-th on
RECURSIVE ScalableFillSum(_, _)
ScalableFillSum(sb, i) ==
    IF i > Len(sb.bfs) THEN 0
    ELSE FAdd(BloomFillRatio(sb.bfs[i]), ScalableFillSum(sb, i + 1))

\* a faulty FillRatio, for comparison: the last generation's value
ScalableFillRatioLastOnly(sb) == BloomFillRatio(sb.bfs[Len(sb.bfs)])

\* t / float64(len(bfs)): the mean of the generations' fill ratios
ScalableFillRatio(sb) ==
    LET t == ScalableFillSum(sb, 1)
    IN  IF t = NaN THEN NaN ELSE FDiv(t, Len(sb.bfs) * FScale)

\* a faulty growth test, for comparison: the share of bits set, not the
\* estimate, against p
ScalableMustGrowByFillRatio(sb) == FGt(BloomFillRatio(sb.bfs[Len(sb.bfs)]), sb.p)

\* Add: whether the last generation's estimated fill ratio exceeds p
ScalableMustGrow(sb) == FGt(BloomEstimatedFillRatio(sb.bfs[Len(sb.bfs)]), sb.p)

\* Add: the filter as the growth test leaves it, before the insertion
ScalableGrown(sb) == IF ScalableMustGrow(sb) THEN addBloomFilter(sb) ELSE {sb}

\* Add(item) ends in a panic of the last generation's Add
ScalableAddPanics(sb, item) ==
    \E g \in ScalableGrown(sb) : BloomBitsPanics(g.bfs[Len(g.bfs)], item)

\* the filters Add(item) can leave when it returns
ScalableAdd(sb, item) ==
    { [g EXCEPT !.bfs[Len(g.bfs)] = BloomAdd(g.bfs[Len(g.bfs)], item), !.c = g.c + 1] :
        g \in {x \in ScalableGrown(sb) : ~BloomBitsPanics(x.bfs[Len(x.bfs)], item)} }

\* Check(item) ends in a panic of the Check of a generation it reaches,
\* scanning from the generation i down
RECURSIVE ScalableScanPanics(_, _, _)
ScalableScanPanics(bfs, i, item) ==
    IF i < 1 THEN FALSE
    ELSE IF BloomBitsPanics(bfs[i], item) THEN TRUE
    ELSE IF BloomCheck(bfs[i], item) THEN FALSE
    ELSE ScalableScanPanics(bfs, i - 1, item)

ScalableCheckPanics(sb, item) == ScalableScanPanics(sb.bfs, Len(sb.bfs), item)

\* a faulty scan, for comparison: the loop ends before the oldest generation
RECURSIVE ScalableScanSkipsOldest(_, _, _)
ScalableScanSkipsOldest(bfs, i, item) ==
    IF i < 2 THEN FALSE
    ELSE BloomCheck(bfs[i], item) \/ ScalableScanSkipsOldest(bfs, i - 1, item)

\* Check scans from the generation i down and stops at the first hit
RECURSIVE ScalableScan(_, _, _)
ScalableScan(bfs, i, item) ==
    IF i < 1 THEN FALSE
    ELSE BloomCheck(bfs[i], item) \/ ScalableScan(bfs, i - 1, item)

\* a faulty Check, for comparison: it asks the last generation only
ScalableCheckLastOnly(sb, item) == BloomCheck(sb.bfs[Len(sb.bfs)], item)

ScalableCheck(sb, item) == ScalableScan(sb.bfs, Len(sb.bfs), item)

\* the generations Check(item) has called Check on: from the last one down
\* to the first hit
RECURSIVE ScalableScanned(_, _, _)
ScalableScanned(bfs, i, item) ==
    IF i < 1 THEN {}
    ELSE IF BloomCheck(bfs[i], item) THEN {i}
    ELSE {i} \cup ScalableScanned(bfs, i - 1, item)

ScalableAfterCheck(sb, item) ==
    LET scanned == ScalableScanned(sb.bfs, Len(sb.bfs), item)
    IN  [sb EXCEPT !.bfs = [i \in 1 .. Len(sb.bfs) |->
                               IF i \in scanned THEN BloomAfterCheck(sb.bfs[i], item)
                               ELSE sb.bfs[i]]]

(***************************************************************************)
(* The filter the caller holds, of any of the three types.                 *)
(***************************************************************************)
Kinds == {"standard", "partitioned", "scalable"}

New(kind, n) ==
    IF kind = "scalable" THEN ScalableNew(n) ELSE {BloomNew(kind, n)}

Count(f) == f.c

Check(f, item) ==
    IF f.kind = "scalable" THEN ScalableCheck(f, item) ELSE BloomCheck(f, item)

FillRatio(f) ==
    IF f.kind = "scalable" THEN ScalableFillRatio(f) ELSE BloomFillRatio(f)

EstimatedFillRatio(f) ==
    IF f.kind = "scalable" THEN ScalableEstimatedFillRatio(f)
    ELSE BloomEstimatedFillRatio(f)

\* Add(item) on f can end in a run-time panic instead of returning
AddPanics(f, item) ==
    IF f.kind = "scalable" THEN ScalableAddPanics(f, item) ELSE BloomBitsPanics(f, item)

\* Check(item) on f ends in a run-time panic instead of returning
CheckPanics(f, item) ==
    IF f.kind = "scalable" THEN ScalableCheckPanics(f, item) ELSE BloomBitsPanics(f, item)

\* the filters an Add(item) on f can leave when it returns
Added(f, item) ==
    IF f.kind = "scalable" THEN ScalableAdd(f, item)
    ELSE IF BloomBitsPanics(f, item) THEN {} ELSE {BloomAdd(f, item)}

\* the filters a Check(item) on f can leave when it returns
Checked(f, item) ==
    IF CheckPanics(f, item) THEN {}
    ELSE IF f.kind = "scalable" THEN {ScalableAfterCheck(f, item)}
    ELSE {BloomAfterCheck(f, item)}

\* the filters a Reset() on f can leave
Resetted(f) ==
    IF f.kind = "scalable" THEN ScalableReset(f) ELSE BloomReset(f)

(***************************************************************************)
(* The calls of the caller.  Count, FillRatio and EstimatedFillRatio read  *)
(* the filter and write nothing; what they return is the operator of the   *)
(* same name applied to bf.  A call that panics ends the program: it is no *)
(* step, and AddPanics and CheckPanics tell the states it would happen in. *)
(***************************************************************************)
Add(item) ==
    /\ bf.c < MaxCount
    /\ bf' \in Added(bf, item)

DoCheck(item) == bf' \in Checked(bf, item)

DoCount == UNCHANGED bf

Reset == bf' \in Resetted(bf)

SetHasher(h) ==
    bf' = (IF bf.kind = "scalable" THEN ScalableSetHasher(bf, h)
           ELSE BloomSetHasher(bf, h))

SetErrorProbability(e) ==
    bf' = (IF bf.kind = "scalable" THEN ScalableSetErrorProbability(bf, e)
           ELSE BloomSetErrorProbability(bf, e))

SetBloomFilter(f) ==
    /\ bf.kind = "scalable"
    /\ bf' = ScalableSetBloomFilter(bf, f)

DoFillRatio == UNCHANGED bf

DoEstimatedFillRatio == UNCHANGED bf

Init == \E kind \in Kinds, n \in Capacities : bf \in New(kind, n)

Next ==
    \/ \E item \in Items : Add(item)
    \/ \E item \in Items : DoCheck(item)
    \/ DoCount
    \/ Reset
    \/ \E h \in CallerHashers : SetHasher(h)
    \/ \E e \in ErrorRates : SetErrorProbability(e)
    \/ \E f \in Constructors : SetBloomFilter(f)
    \/ DoFillRatio
    \/ DoEstimatedFillRatio

Spec == Init /\ [][Next]_vars

(***************************************************************************)
(* The test driver: testBloomFilter on a Scalable filter with the          *)
(* defaults.  The first loop adds the words of web2 in order and checks    *)
(* each right after adding it; the second loop checks the words of web2a.  *)
(***************************************************************************)
web2 == [l \in 1 .. MaxKeys |-> l]
web2a == {MaxKeys + 1, MaxKeys + 2}
TestCapacities == 1 .. 10

TestInit == \E n \in TestCapacities : bf \in ScalableNew(n)

TestAdd ==
    /\ bf.c < Len(web2)
    /\ \E g \in ScalableAdd(bf, web2[bf.c + 1]) :
          bf' = ScalableAfterCheck(g, web2[bf.c + 1])

TestProbe ==
    /\ bf.c = Len(web2)
    /\ \E w \in web2a : bf' = ScalableAfterCheck(bf, w)

TestNext == TestAdd \/ TestProbe

TestSpec == TestInit /\ [][TestNext]_vars

(***************************************************************************)
(* Vocabulary of the properties.                                           *)
(***************************************************************************)
IsScalable == bf.kind = "scalable"

\* the Standard and Partitioned filters of a filter: itself, or its generations
Generations(f) ==
    IF f.kind = "scalable" THEN {f.bfs[i] : i \in 1 .. Len(f.bfs)} ELSE {f}

LastGeneration(f) == f.bfs[Len(f.bfs)]

AllBitsClear(f) == \A g \in Generations(f) : \A i \in 1 .. Len(g.b) : g.b[i].set = {}

\* k, m and s are the values the parameter math gives for n, p and e
Rederived(g) ==
    /\ g.k = K(g.e)
    /\ g.m = M(g.n, g.p, g.e)
    /\ g.kind = "partitioned" => g.s \in S(g.m, g.k)

\* an error rate outside (0, 1)
InvalidRate(e) == e <= 0 \/ e >= FScale

Setter == (\E h \in CallerHashers : SetHasher(h)) \/ (\E e \in ErrorRates : SetErrorProbability(e))

Query == (\E x \in Items : DoCheck(x)) \/ DoCount \/ DoFillRatio \/ DoEstimatedFillRatio

(***************************************************************************)
(* C1.  No false negatives: on every filter the caller can hold, whatever  *)
(* Add(x) leaves has Check(x) true, and no Add, of x or of another item,   *)
(* with or without a new generation, turns a true Check(y) false; so       *)
(* Check(x) is true right after Add(x) and after any number of later Adds. *)
(***************************************************************************)
C1_NoFalseNegatives ==
    [](\A x \in Items :
          \A g \in Added(bf, x) :
              /\ Check(g, x)
              /\ \A y \in Items : Check(bf, y) => Check(g, y))

\* a Scalable filter that has grown: an item sits in the first generation
\* only, and Check still finds it
C1_Witness ==
    /\ IsScalable
    /\ Len(bf.bfs) >= 2
    /\ LastGeneration(bf).c >= 1
    /\ \E x \in Items : /\ BloomCheck(bf.bfs[1], x)
                        /\ ~BloomCheck(LastGeneration(bf), x)
                        /\ Check(bf, x)

(***************************************************************************)
(* C2.  Reset() leaves the filter empty, of any type: Count() is 0, every  *)
(* bit of every region is clear, k, m and s are the values derived from n, *)
(* p and e, and a second Reset() changes nothing.                          *)
(***************************************************************************)
C2_ResetLeavesEmpty ==
    [][Reset => /\ Count(bf') = 0
                /\ AllBitsClear(bf')
                /\ \A g \in Generations(bf') : Rederived(g)
                /\ bf' \in Resetted(bf')]_vars

(***************************************************************************)
(* C3.  SetHasher and SetErrorProbability are deferred until the next      *)
(* Reset(): the call changes no index derived for an item, no result of    *)
(* Check, none of k, m, s, and not the generation growth would append.     *)
(***************************************************************************)
BitsOf(g, x) ==
    IF BloomBitsPanics(g, x) THEN "panic"
    ELSE IF g.kind = "standard" THEN StandardBits(g, x) ELSE PartitionedBits(g, x)

\* what a caller can observe of a filter short of calling Reset()
Observable(f) ==
    [check |-> [x \in Items |-> IF CheckPanics(f, x) THEN "panic" ELSE Check(f, x)],
     bits |-> IF f.kind = "scalable"
              THEN [i \in 1 .. Len(f.bfs) |-> [x \in Items |-> BitsOf(f.bfs[i], x)]]
              ELSE <<[x \in Items |-> BitsOf(f, x)]>>,
     kms |-> IF f.kind = "scalable"
             THEN [i \in 1 .. Len(f.bfs) |-> <<f.bfs[i].k, f.bfs[i].m, f.bfs[i].s>>]
             ELSE <<<<f.k, f.m, f.s>>>>,
     grown |-> IF f.kind = "scalable"
               THEN {<<LastGeneration(g).h, LastGeneration(g).e>> : g \in addBloomFilter(f)}
               ELSE {}]

C3_SettersDeferred == [][Setter => Observable(bf') = Observable(bf)]_vars

(***************************************************************************)
(* C4.  Count() is the number of Add calls, duplicates included: on every  *)
(* filter the caller can hold, an Add, of a new key or a repeated one,     *)
(* raises Count() by exactly one, and Check, Count, FillRatio,             *)
(* EstimatedFillRatio and the setters leave it as it is.                   *)
(***************************************************************************)
C4_CountIsAddCount ==
    /\ [](\A x \in Items : /\ \A g \in Added(bf, x) : Count(g) = Count(bf) + 1
                           /\ \A g \in Checked(bf, x) : Count(g) = Count(bf))
    /\ [][(DoCount \/ DoFillRatio \/ DoEstimatedFillRatio \/ Setter
             \/ \E f \in Constructors : SetBloomFilter(f))
             => Count(bf') = Count(bf)]_vars

\* a Standard filter built with n = 1000 counts 3 after three Adds that set
\* the bits of no more than one key
C4_Witness ==
    /\ bf.kind = "standard"
    /\ bf.n = 1000
    /\ Count(bf) = 3
    /\ bf.k = 10
    /\ bitsetCount(bf.b[1]) = bf.k

(***************************************************************************)
(* C5.  Invalid configuration is rejected: SetErrorProbability(e) with     *)
(* e <= 0 or e >= 1 leaves the filter as it was (e, k, m, s, bits, count), *)
(* and so does a Reset() of a filter whose e is such a value.              *)
(***************************************************************************)
C5_InvalidRateRejected ==
    [][/\ \A e \in ErrorRates : (InvalidRate(e) /\ SetErrorProbability(e)) => bf' = bf
       /\ (InvalidRate(bf.e) /\ Reset) => bf' = bf]_vars

(***************************************************************************)
(* C6.  As claimed: on a Scalable filter FillRatio() and                   *)
(* EstimatedFillRatio() each return the last generation's value.           *)
(***************************************************************************)
C6_BothReportLastGeneration ==
    IsScalable => /\ FillRatio(bf) = BloomFillRatio(LastGeneration(bf))
                  /\ EstimatedFillRatio(bf) = BloomEstimatedFillRatio(LastGeneration(bf))

\* the float64 sum of the generations' fill ratios, from the first on
RECURSIVE FillRatioTotal(_)
FillRatioTotal(gens) ==
    IF gens = << >> THEN 0
    ELSE LET rest == FillRatioTotal(Tail(gens))
             x == BloomFillRatio(Head(gens))
         IN  IF x = NaN \/ rest = NaN THEN NaN ELSE x + rest

(***************************************************************************)
(* C6, amended.  On a Scalable filter EstimatedFillRatio() returns the     *)
(* last generation's value, and FillRatio() returns the mean of the        *)
(* FillRatio() values of all the generations.                              *)
(***************************************************************************)
C6_LastEstimateMeanFill ==
    IsScalable =>
        /\ EstimatedFillRatio(bf) = BloomEstimatedFillRatio(LastGeneration(bf))
        /\ LET total == FillRatioTotal(bf.bfs)
           IN  FillRatio(bf) = IF total = NaN THEN NaN
                               ELSE FDiv(total, Len(bf.bfs) * FScale)

\* two generations with different fill ratios: the mean is not the last one's
C6_Witness ==
    /\ IsScalable
    /\ Len(bf.bfs) >= 2
    /\ IsFinite(FillRatio(bf))
    /\ FillRatio(bf) # BloomFillRatio(LastGeneration(bf))

(***************************************************************************)
(* C7.  As claimed: a Scalable filter built with n = 10 and the defaults   *)
(* has one generation after each of the first 10 Adds of distinct keys and *)
(* two after the 11th.                                                     *)
(***************************************************************************)
C7_GrowsAtEleventhAdd ==
    bf.n = 10 => /\ Count(bf) <= 10 => Len(bf.bfs) = 1
                 /\ Count(bf) = 11 => Len(bf.bfs) = 2

(***************************************************************************)
(* C7, amended.  A Scalable filter built with n = 10 and the defaults has  *)
(* one generation after each of the first 11 Adds of distinct keys and     *)
(* two after the 12th.                                                     *)
(***************************************************************************)
C7_GrowsAtTwelfthAdd ==
    bf.n = 10 => /\ Count(bf) <= 11 => Len(bf.bfs) = 1
                 /\ Count(bf) = 12 => Len(bf.bfs) = 2

C7_Witness ==
    /\ bf.n = 10
    /\ Count(bf) = 12
    /\ Len(bf.bfs) = 2
    /\ LastGeneration(bf).c = 1

(***************************************************************************)
(* C8.  The chain of a Scalable filter is never empty.  A step that is not *)
(* a Reset() (an Add, a Check, a setter) never shortens it and keeps every *)
(* generation it holds in its place, with its configuration, its set bits  *)
(* and its count; Reset() leaves exactly one generation, empty, and the    *)
(* Scalable count at 0.                                                    *)
(***************************************************************************)
\* g2 is the generation g1 at a later time: not replaced, nothing removed
SameGeneration(g1, g2) ==
    /\ <<g2.kind, g2.h, g2.n, g2.p, g2.e, g2.k, g2.m, g2.s>>
          = <<g1.kind, g1.h, g1.n, g1.p, g1.e, g1.k, g1.m, g1.s>>
    /\ Len(g2.b) = Len(g1.b)
    /\ \A i \in 1 .. Len(g1.b) : g1.b[i].set \subseteq g2.b[i].set
    /\ g2.c >= g1.c

C8_ChainShape ==
    /\ [](IsScalable =>
            /\ Len(bf.bfs) >= 1
            /\ \A g \in Resetted(bf) : /\ Len(g.bfs) = 1
                                       /\ g.bfs[1].c = 0
                                       /\ AllBitsClear(g)
                                       /\ Count(g) = 0)
    /\ [][IsScalable =>
            \/ /\ Len(bf'.bfs) >= Len(bf.bfs)
               /\ \A i \in 1 .. Len(bf.bfs) : SameGeneration(bf.bfs[i], bf'.bfs[i])
            \/ Reset]_vars

\* a chain that has grown twice, its older generations still holding items
C8_Witness ==
    /\ IsScalable
    /\ Len(bf.bfs) >= 3
    /\ bf.bfs[1].c >= 1
    /\ bf.bfs[2].c >= 1

(***************************************************************************)
(* C9.  Geometric error budget: every generation of a Scalable filter has  *)
(* an error rate strictly below that of the generation before it.          *)
(***************************************************************************)
C9_BudgetsDecrease ==
    IsScalable => \A i \in 2 .. Len(bf.bfs) : bf.bfs[i].e < bf.bfs[i - 1].e

(***************************************************************************)
(* C10.  Partition sizing: a Partitioned filter owns exactly k bit         *)
(* regions, each of width s, and s = ceil(m / k) whenever there is a       *)
(* region (k > 0); the index derived for partition i lies in [0, s), an    *)
(* Add sets that one index in partition i and no other bit, and a Check    *)
(* tests that one index in partition i and writes no bit.  With k = 0      *)
(* there is no region and no index, and nothing is said about s.           *)
(***************************************************************************)
PartitionShape(g) ==
    /\ Len(g.b) = g.k
    /\ Len(g.bs) = g.k
    /\ \A i \in 1 .. g.k :
          /\ g.b[i].length = g.s
          /\ g.s * g.k >= g.m
          /\ (g.s - 1) * g.k < g.m
          /\ g.bs[i] \in 0 .. g.s - 1
          /\ g.b[i].set \subseteq 0 .. g.s - 1

Partitioned(f) == {g \in Generations(f) : g.kind = "partitioned"}

C10_PartitionSizing ==
    /\ \A g \in Partitioned(bf) : PartitionShape(g)
    /\ [][/\ \A g \in Partitioned(bf') : PartitionShape(g)
          /\ bf.kind = "partitioned" =>
                \A x \in Items :
                    /\ Add(x) => \A i \in 1 .. bf.k :
                                    bf'.b[i].set = bf.b[i].set \cup {bf'.bs[i]}
                    /\ DoCheck(x) => /\ bf'.b = bf.b
                                     /\ Check(bf, x) = \A i \in 1 .. bf.k :
                                                          bf'.bs[i] \in bf.b[i].set]_vars

\* a Partitioned filter re-sized by Reset() to one partition, holding an item
C10_Witness ==
    /\ bf.kind = "partitioned"
    /\ bf.k = 1
    /\ bf.s >= 2
    /\ bf.c >= 1
    /\ bf.b[1].set # {}

(***************************************************************************)
(* C11.  Add and Check are total: SetHasher refuses a digest source of     *)
(* fewer than 8 bytes (the filter stays as it was), and in every state a   *)
(* filter can reach through any calls, Add(x) and Check(x) return for      *)
(* every item x: no read past the digest, no division by a zero width.     *)
(***************************************************************************)
C11_AddAndCheckTotal ==
    /\ [][\A h \in CallerHashers : (hashSize(h) < 8 /\ SetHasher(h)) => bf' = bf]_vars
    /\ [](\A x \in Items : ~AddPanics(bf, x) /\ ~CheckPanics(bf, x))

(***************************************************************************)
(* C12.  Scalable Add protocol: an Add(x) that returns has appended one    *)
(* generation if the last generation's EstimatedFillRatio() was greater    *)
(* than p when it was called, and none otherwise; every generation that    *)
(* was there before, but one it inserts into, is left as it was; the last  *)
(* generation receives x, its count and the Scalable count go up by        *)
(* exactly 1; and the Scalable count is always the sum of the counts of    *)
(* its generations.                                                        *)
(***************************************************************************)
RECURSIVE CountSum(_)
CountSum(gens) == IF gens = << >> THEN 0 ELSE Head(gens).c + CountSum(Tail(gens))

\* the generation new is old with the indices of x set and one more Add counted
Inserted(old, new, x) ==
    /\ SameGeneration(old, new)
    /\ new.c = old.c + 1
    /\ new.bs = BitsOf(old, x)
    /\ \A i \in 1 .. Len(old.b) :
          new.b[i].set \subseteq old.b[i].set \cup {new.bs[j] : j \in 1 .. Len(new.bs)}
    /\ BloomCheck(new, x)

C12_ScalableAddProtocol ==
    [](IsScalable =>
        /\ Count(bf) = CountSum(bf.bfs)
        /\ \A x \in Items :
              \A g \in Added(bf, x) :
                 LET full == FGt(BloomEstimatedFillRatio(LastGeneration(bf)), bf.p)
                     n == Len(bf.bfs)
                 IN  /\ Len(g.bfs) = IF full THEN n + 1 ELSE n
                     /\ \A i \in 1 .. (IF full THEN n ELSE n - 1) : g.bfs[i] = bf.bfs[i]
                     /\ IF full
                        THEN LET new == LastGeneration(g)
                             IN  /\ new.c = 1
                                 /\ new.bs = BitsOf(new, x)
                                 /\ \A i \in 1 .. Len(new.b) :
                                       new.b[i].set \subseteq
                                          {new.bs[j] : j \in 1 .. Len(new.bs)}
                                 /\ BloomCheck(new, x)
                        ELSE Inserted(LastGeneration(bf), LastGeneration(g), x)
                     /\ Count(g) = Count(bf) + 1)

\* an Add has just appended the second generation and inserted into it: the
\* first one's estimate is above p, the second one counts 1
C12_Witness ==
    /\ IsScalable
    /\ Len(bf.bfs) = 2
    /\ FGt(BloomEstimatedFillRatio(bf.bfs[1]), bf.p)
    /\ bf.bfs[1].c = 2
    /\ bf.bfs[2].c = 1
    /\ Count(bf) = 3

(***************************************************************************)
(* C13.  Scalable Check(x), when it returns, returns true if and only if   *)
(* the Check(x) of at least one generation returns true, which is what a   *)
(* scan in any order finds, oldest first included; it returns false only   *)
(* if every generation misses; and it leaves the bits and the count of     *)
(* every generation, the chain and the Scalable count as they were.  It    *)
(* asks the generations from the newest down and stops at the first hit:   *)
(* the generations older than the newest one that holds x are not asked.   *)
(***************************************************************************)
\* the scan from the oldest generation i up to the newest
RECURSIVE ScanOldestFirst(_, _, _)
ScanOldestFirst(bfs, i, item) ==
    IF i > Len(bfs) THEN FALSE
    ELSE BloomCheck(bfs[i], item) \/ ScanOldestFirst(bfs, i + 1, item)

C13_ScalableCheckIsAnyGeneration ==
    IsScalable =>
        \A x \in Items :
            ~CheckPanics(bf, x) =>
                /\ Check(bf, x) = (\E i \in 1 .. Len(bf.bfs) : BloomCheck(bf.bfs[i], x))
                /\ Check(bf, x) = ScanOldestFirst(bf.bfs, 1, x)
                /\ ~Check(bf, x) => \A i \in 1 .. Len(bf.bfs) : ~BloomCheck(bf.bfs[i], x)
                /\ \A g \in Checked(bf, x) :
                      /\ Len(g.bfs) = Len(bf.bfs)
                      /\ Count(g) = Count(bf)
                      /\ \A i \in 1 .. Len(bf.bfs) : /\ g.bfs[i].b = bf.bfs[i].b
                                                     /\ g.bfs[i].c = bf.bfs[i].c
                      /\ LET hits == {i \in 1 .. Len(bf.bfs) : BloomCheck(bf.bfs[i], x)}
                             newest == CHOOSE i \in hits \cup {0} :
                                          \A j \in hits : j <= i
                         IN  \A i \in 1 .. Len(bf.bfs) :
                                IF i < newest THEN g.bfs[i] = bf.bfs[i]
                                ELSE g.bfs[i].bs = BitsOf(bf.bfs[i], x)

\* a Check(x) has scanned a chain of two generations: the newest derived the
\* indices of x and missed, the oldest holds x
C13_Witness ==
    /\ IsScalable
    /\ Len(bf.bfs) = 2
    /\ \E x \in Items : /\ ~CheckPanics(bf, x)
                        /\ bf.bfs[2].bs = BitsOf(bf.bfs[2], x)
                        /\ ~BloomCheck(bf.bfs[2], x)
                        /\ bf.bfs[1].bs = BitsOf(bf.bfs[1], x)
                        /\ BloomCheck(bf.bfs[1], x)
                        /\ Check(bf, x)

\* 1 - exp(-load / width) in float64, for two unsigned integers: NaN for 0/0,
\* and 1 for a positive load on a zero width
ExpectedFill(load, width) ==
    IF width = 0 THEN (IF load = 0 THEN NaN ELSE FScale)
    ELSE FScale - Exp(-DivF(load, width))

\* the filter g with no bit set and its scratch indices zeroed
Blank(g) ==
    [g EXCEPT !.b = [i \in 1 .. Len(g.b) |-> [length |-> g.b[i].length, set |-> {}]],
              !.bs = [i \in 1 .. Len(g.bs) |-> 0]]

(***************************************************************************)
(* C14.  As claimed: EstimatedFillRatio() of a Standard or Partitioned     *)
(* filter is 1 - exp(-c*k/width), with width m for Standard and s for      *)
(* Partitioned, whatever bits are set.                                     *)
(***************************************************************************)
C14_EstimateUsesCKOverWidth ==
    \A g \in Generations(bf) :
        /\ BloomEstimatedFillRatio(g)
              = ExpectedFill(g.c * g.k, IF g.kind = "standard" THEN g.m ELSE g.s)
        /\ BloomEstimatedFillRatio(Blank(g)) = BloomEstimatedFillRatio(g)

(***************************************************************************)
(* C14, amended.  EstimatedFillRatio() is 1 - exp(-c*k/m) for a Standard   *)
(* filter and 1 - exp(-c/s) for a Partitioned filter (k does not enter:    *)
(* each Add sets one bit in each partition of width s); it depends only on *)
(* c, k and m, or on c and s, and not on the bits actually set.            *)
(***************************************************************************)
C14_EstimateStandardCKOverM_PartitionedCOverS ==
    \A g \in Generations(bf) :
        /\ BloomEstimatedFillRatio(g)
              = IF g.kind = "standard" THEN ExpectedFill(g.c * g.k, g.m)
                ELSE ExpectedFill(g.c, g.s)
        /\ BloomEstimatedFillRatio(Blank(g)) = BloomEstimatedFillRatio(g)

\* a Partitioned filter of ten partitions after two Adds of one item: one bit
\* is set in each partition, and the estimate is that of two Adds
C14_Witness ==
    /\ bf.kind = "partitioned"
    /\ bf.k = 10
    /\ bf.c = 2
    /\ \A i \in 1 .. bf.k : bitsetCount(bf.b[i]) = 1
    /\ EstimatedFillRatio(bf) = ExpectedFill(2, bf.s)
    /\ EstimatedFillRatio(bf) # FillRatio(bf)
====
